---- MODULE Spec2Model ----
(***************************************************************************)
(* CareConnect hospital dashboard (streamlit_app.py).                      *)
(*                                                                         *)
(* One Streamlit server process runs the script once per user interaction  *)
(* and per browser session, each run in its own thread.  All sessions      *)
(* share one sqlite3 connection (st.cache_resource, check_same_thread =    *)
(* False), so every statement of one session sees the rows written by the  *)
(* others at once; a session's st.session_state is private to it.          *)
(* A handler that issues one SQL statement is one action; register and the *)
(* Reset Password handler issue a SELECT and then a write, and another     *)
(* session's statements may run between the two, so each is two actions.   *)
(* The password, the role and the salt of such a run are local to it until *)
(* its write, and are drawn there.  The rows of patients, doctors and      *)
(* appointments are the record store's and are not modelled: a list, an    *)
(* INSERT into them is the message its run shows, and whether the booking  *)
(* form found a patient and a doctor to choose is an input of that run.    *)
(***************************************************************************)
EXTENDS Integers, Sequences, FiniteSets, TLC

\* ------------------------------------------------------------ inputs
\* browser sessions
Sessions == {"s1", "s2"}
\* values bcrypt.gensalt() may draw
Salts == {1, 2}
\* text typed into the username and password boxes
Usernames == {"alice", "bob"}
Passwords == {"pw123", "pw456"}
\* st.selectbox("Role", ...)
Roles == {"admin", "doctor", "receptionist"}

None == "None"
\* fetchone() with no row left
NoRow == [username |-> None]
\* no register call for the username has succeeded
NoAccount == [secret |-> None, role |-> None]

\* ------------------------------------------------------------ messages
LoginOk == "Login successful!"
LoginErr == "Invalid username or password"
RegisterOk == "Registered successfully! You can now log in."
RegisterErr == "Username already exists."
ResetOk == "Password reset successfully!"
ResetErr == "Username does not exist."
PatientOk == "Patient added successfully!"
DoctorOk == "Doctor added successfully!"
AppointmentOk == "Appointment booked successfully!"
PatientsCsv == "patients.csv"
DoctorsCsv == "doctors.csv"
AppointmentsCsv == "appointments.csv"
\* an exception that leaves the script run: Streamlit shows the traceback
IntegrityError == "sqlite3.IntegrityError: UNIQUE constraint failed: users.username"
TypeError == "TypeError: 'NoneType' object is not subscriptable"
\* nothing but the widgets on the page
NoMessage == "-"

VARIABLES
    users,          \* table users: a set of rows [username, password, role]
    session,        \* st.session_state of each session
    pending,        \* a register / reset run between its SELECT and its write
    shown,          \* the last message a run showed, and the session it ran for
    account         \* history: the secret and role each username was last given

vars == <<users, session, pending, shown, account>>

\* ------------------------------------------------------------ bcrypt
\* password.encode(): the bytes of the password, as a number
encode(password) ==
    CASE password = "pw123" -> 1
      [] password = "pw456" -> 2

\* bcrypt.hashpw(bytes, salt): the salt is kept in the hash, the digest
\* depends on both the salt and the password
hashpw(code, salt) == [salt |-> salt, digest |-> code * (Cardinality(Salts) + 1) + salt]

\* hash_password(password), with the salt bcrypt.gensalt() drew
hash_password(password, salt) == hashpw(encode(password), salt)

\* mutant of check_password: any input matches an existing hash
check_password_any(input_password, stored_hashed_password) ==
    stored_hashed_password.salt \in Salts

\* bcrypt.checkpw: hash the input under the stored hash's salt and compare
check_password(input_password, stored_hashed_password) ==
    hashpw(encode(input_password), stored_hashed_password.salt) = stored_hashed_password

\* ------------------------------------------------------------ SQL on users
\* SELECT ... FROM users WHERE username = ?
select_user(db, username) == {row \in db : row.username = username}

\* cursor.fetchone()
fetchone(rows) == IF rows = {} THEN NoRow ELSE CHOOSE row \in rows : TRUE

\* mutant of violates_primary_key: the column is declared without PRIMARY KEY
violates_primary_key_never(db, username) == FALSE

\* username TEXT PRIMARY KEY: an INSERT of a present username is refused
violates_primary_key(db, username) == select_user(db, username) # {}

\* mutant of reset_password: the UPDATE matches no row
reset_password_no_row(db, username, new_password, salt) ==
    {row : row \in db}

\* mutant of reset_password: the UPDATE has no WHERE clause
reset_password_every_row(db, username, new_password, salt) ==
    {[row EXCEPT !.password = hash_password(new_password, salt)] : row \in db}

\* mutant of reset_password: the row is written anew and its role is lost
reset_password_loses_role(db, username, new_password, salt) ==
    {IF row.username = username
       THEN [username |-> username,
             password |-> hash_password(new_password, salt),
             role |-> None]
       ELSE row : row \in db}

\* UPDATE users SET password = ? WHERE username = ?
reset_password(db, username, new_password, salt) ==
    {IF row.username = username
       THEN [row EXCEPT !.password = hash_password(new_password, salt)]
       ELSE row : row \in db}

\* ------------------------------------------------------------ session
\* Session Setup
InitialSession == [authenticated |-> FALSE, username |-> None, role |-> None]

\* mutant of AuthBranch: the test without its "not"
AuthBranch_inverted(sess) == sess.authenticated

\* if not st.session_state.authenticated: ... else: ...
AuthBranch(sess) == ~sess.authenticated

\* mutant of logout_assign: the role is not cleared
logout_assign_keeps_role(sess) ==
    [sess EXCEPT !.authenticated = FALSE, !.username = None]

\* the Logout button's assignments
logout_assign(sess) ==
    [sess EXCEPT !.authenticated = FALSE, !.username = None, !.role = None]

\* mutant of login_run: a successful login does not store the role
login_run_no_role(db, sess, username, password) ==
    LET result == fetchone(select_user(db, username))
    IN  IF result # NoRow /\ check_password(password, result.password)
          THEN [sess |-> [authenticated |-> TRUE, username |-> username,
                          role |-> sess.role],
                msg |-> LoginOk]
          ELSE [sess |-> sess, msg |-> LoginErr]

\* mutant of login_run: the username is stored before the password is checked
login_run_keeps_username(db, sess, username, password) ==
    LET result == fetchone(select_user(db, username))
    IN  IF result # NoRow /\ check_password(password, result.password)
          THEN [sess |-> [authenticated |-> TRUE, username |-> username,
                          role |-> result.role],
                msg |-> LoginOk]
          ELSE [sess |-> [sess EXCEPT !.username = username], msg |-> LoginErr]

\* mutant of login_run: an unknown username gets a message of its own
login_run_tells_unknown(db, sess, username, password) ==
    LET result == fetchone(select_user(db, username))
    IN  IF result # NoRow /\ check_password(password, result.password)
          THEN [sess |-> [authenticated |-> TRUE, username |-> username,
                          role |-> result.role],
                msg |-> LoginOk]
          ELSE [sess |-> sess,
                msg |-> IF result = NoRow THEN ResetErr ELSE LoginErr]

\* mutant of login_run: the role stored is not the row's
login_run_fixed_role(db, sess, username, password) ==
    LET result == fetchone(select_user(db, username))
    IN  IF result # NoRow /\ check_password(password, result.password)
          THEN [sess |-> [authenticated |-> TRUE, username |-> username,
                          role |-> "admin"],
                msg |-> LoginOk]
          ELSE [sess |-> sess, msg |-> LoginErr]

\* login(username, password): the session state and the message it leaves
login_run(db, sess, username, password) ==
    LET result == fetchone(select_user(db, username))
    IN  IF result # NoRow /\ check_password(password, result.password)
          THEN [sess |-> [authenticated |-> TRUE, username |-> username,
                          role |-> result.role],
                msg |-> LoginOk]
          ELSE [sess |-> sess, msg |-> LoginErr]

\* the role lists in front of the three forms
add_patient_gate(role) == role \in {"admin", "receptionist"}
\* mutant of add_doctor_gate: doctors may add doctors
add_doctor_gate_doctor(role) == role \in {"admin", "doctor"}
add_doctor_gate(role) == role \in {"admin"}
add_appointment_gate(role) == role \in {"admin", "receptionist"}

Idle == [op |-> "idle"]

TypeOK ==
    /\ \A row \in users : /\ row.username \in Usernames
                          /\ row.role \in Roles
                          /\ row.password.salt \in Salts
    /\ \A s \in Sessions : session[s].authenticated \in BOOLEAN

Init ==
    /\ users = {}
    /\ session = [s \in Sessions |-> InitialSession]
    /\ pending = [s \in Sessions |-> Idle]
    /\ shown = [session |-> None, msg |-> NoMessage]
    /\ account = [u \in Usernames |-> NoAccount]


\* no run of the session's script is under way: a click starts one, and the run
\* creates the buttons of the branch it takes
CanClick(s) == pending[s] = Idle

\* st.success / st.error / the traceback of an exception, in the run of session s
Show(s, msg) == shown' = [session |-> s, msg |-> msg]

\* ------------------------------------------------------------ auth page
\* mutant of login: the state is a module-level global, one for all sessions
login_global_state(s, username, password) ==
    /\ CanClick(s)
    /\ AuthBranch(session[s])
    /\ LET r == login_run(users, session[s], username, password)
       IN  /\ session' = [t \in Sessions |-> r.sess]
           /\ Show(s, r.msg)
    /\ UNCHANGED <<users, pending, account>>

\* Login button
login(s, username, password) ==
    /\ CanClick(s)
    /\ AuthBranch(session[s])
    /\ LET r == login_run(users, session[s], username, password)
       IN  /\ session' = [session EXCEPT ![s] = r.sess]
           /\ Show(s, r.msg)
    /\ UNCHANGED <<users, pending, account>>

\* Register button, up to the SELECT and its fetchone()
register_select(s, username) ==
    /\ CanClick(s)
    /\ AuthBranch(session[s])
    /\ IF fetchone(select_user(users, username)) # NoRow
         THEN /\ Show(s, RegisterErr)
              /\ UNCHANGED pending
         ELSE /\ pending' = [pending EXCEPT ![s] =
                    [op |-> "register", username |-> username]]
              /\ UNCHANGED shown
    /\ UNCHANGED <<users, session, account>>

\* register, from hash_password to the end: INSERT, commit, st.success
register_insert(s, password, role, salt) ==
    /\ pending[s].op = "register"
    /\ LET username == pending[s].username
       IN  IF violates_primary_key(users, username)
             THEN /\ Show(s, IntegrityError)
                  /\ UNCHANGED <<users, account>>
             ELSE /\ users' = users \cup
                        {[username |-> username,
                          password |-> hash_password(password, salt),
                          role |-> role]}
                  /\ Show(s, RegisterOk)
                  /\ account' = [account EXCEPT ![username] =
                        [secret |-> password, role |-> role]]
    /\ pending' = [pending EXCEPT ![s] = Idle]
    /\ UNCHANGED <<session>>

\* Reset Password button, up to the SELECT and its fetchone()
reset_select(s, username) ==
    /\ CanClick(s)
    /\ AuthBranch(session[s])
    /\ IF fetchone(select_user(users, username)) # NoRow
         THEN /\ pending' = [pending EXCEPT ![s] =
                    [op |-> "reset", username |-> username]]
              /\ UNCHANGED shown
         ELSE /\ Show(s, ResetErr)
              /\ UNCHANGED pending
    /\ UNCHANGED <<users, session, account>>

\* Reset Password button, the call of reset_password and st.success
reset_update(s, new_password, salt) ==
    /\ pending[s].op = "reset"
    /\ LET username == pending[s].username
       IN  /\ users' = reset_password(users, username, new_password, salt)
           /\ account' = [account EXCEPT ![username] =
                 IF account[username] = NoAccount
                   THEN NoAccount
                   ELSE [account[username] EXCEPT !.secret = new_password]]
    /\ Show(s, ResetOk)
    /\ pending' = [pending EXCEPT ![s] = Idle]
    /\ UNCHANGED <<session>>

\* ------------------------------------------------------------ dashboard
\* Logout button: the three assignments, then st.rerun()
logout(s) ==
    /\ CanClick(s)
    /\ ~AuthBranch(session[s])
    /\ session' = [session EXCEPT ![s] = logout_assign(session[s])]
    /\ UNCHANGED <<users, pending, shown, account>>

\* Show All Patients / Doctors / Appointments
show_patients(s) ==
    /\ CanClick(s)
    /\ ~AuthBranch(session[s])
    /\ Show(s, PatientsCsv)
    /\ UNCHANGED <<users, session, pending, account>>

show_doctors(s) ==
    /\ CanClick(s)
    /\ ~AuthBranch(session[s])
    /\ Show(s, DoctorsCsv)
    /\ UNCHANGED <<users, session, pending, account>>

show_appointments(s) ==
    /\ CanClick(s)
    /\ ~AuthBranch(session[s])
    /\ Show(s, AppointmentsCsv)
    /\ UNCHANGED <<users, session, pending, account>>

\* add_patient_form submitted
add_patient(s) ==
    /\ CanClick(s)
    /\ ~AuthBranch(session[s])
    /\ add_patient_gate(session[s].role)
    /\ Show(s, PatientOk)
    /\ UNCHANGED <<users, session, pending, account>>

\* add_doctor_form submitted
add_doctor(s) ==
    /\ CanClick(s)
    /\ ~AuthBranch(session[s])
    /\ add_doctor_gate(session[s].role)
    /\ Show(s, DoctorOk)
    /\ UNCHANGED <<users, session, pending, account>>

\* add_appointment_form submitted. st.selectbox returns None when it has no
\* row to choose from, and patient_choice[0] / doctor_choice[0] then raises
add_appointment(s, patient_chosen, doctor_chosen) ==
    /\ CanClick(s)
    /\ ~AuthBranch(session[s])
    /\ add_appointment_gate(session[s].role)
    /\ IF patient_chosen /\ doctor_chosen
         THEN Show(s, AppointmentOk)
         ELSE Show(s, TypeError)
    /\ UNCHANGED <<users, session, pending, account>>

\* ------------------------------------------------------------ specification
Next ==
    \E s \in Sessions :
        \/ \E u \in Usernames, p \in Passwords : login(s, u, p)
        \/ \E u \in Usernames : register_select(s, u)
        \/ \E p \in Passwords, r \in Roles, salt \in Salts : register_insert(s, p, r, salt)
        \/ \E u \in Usernames : reset_select(s, u)
        \/ \E p \in Passwords, salt \in Salts : reset_update(s, p, salt)
        \/ logout(s)
        \/ show_patients(s)
        \/ show_doctors(s)
        \/ show_appointments(s)
        \/ add_patient(s)
        \/ add_doctor(s)
        \/ \E pc \in BOOLEAN, dc \in BOOLEAN : add_appointment(s, pc, dc)

Spec == Init /\ [][Next]_vars

\* ------------------------------------------------------------ claims
Registered(u) == account[u] # NoAccount
Authenticated(s) == session[s].authenticated

\* the run of session s that ends in this step is a register(u, ...) call
RegisterEnds(s, u) ==
    \/ register_select(s, u) /\ pending'[s] = Idle
    \/ \E p \in Passwords, r \in Roles, salt \in Salts :
          register_insert(s, p, r, salt) /\ pending[s].username = u

\* C1: of the register(u, ...) calls made on a store without u, exactly one
\* succeeds and every other one ends in "Username already exists.", however
\* the calls' SELECT and INSERT steps interleave: a call that ends while the
\* store has no record of u succeeds, a call that ends while it has one shows
\* the duplicate-username error, and nothing else is ever shown.
C1_RegisterTwice ==
    [][\A s \in Sessions, u \in Usernames :
          RegisterEnds(s, u) =>
             /\ shown'.session = s
             /\ shown'.msg = IF select_user(users, u) = {} THEN RegisterOk
                                                            ELSE RegisterErr]_vars

\* C2: a registered user logs in with the current secret and with no other.
\* Every login(u, p) run from an unauthenticated session succeeds exactly when
\* u is registered and p is the secret u was registered with (or last reset
\* to); a successful run leaves the session authenticated as u with the role u
\* was registered with, a run with another secret or an unregistered username
\* shows the login error.
C2_LoginVerifies ==
    [][\A s \in Sessions, u \in Usernames, p \in Passwords :
          login(s, u, p) =>
             IF Registered(u) /\ p = account[u].secret
               THEN /\ session'[s] = [authenticated |-> TRUE, username |-> u,
                                      role |-> account[u].role]
                    /\ shown' = [session |-> s, msg |-> LoginOk]
               ELSE /\ ~Authenticated(s)'
                    /\ shown' = [session |-> s, msg |-> LoginErr]]_vars

C2_Witness ==
    \E s \in Sessions, u \in Usernames :
        /\ shown = [session |-> s, msg |-> LoginOk]
        /\ session[s] = [authenticated |-> TRUE, username |-> u,
                         role |-> account[u].role]
        /\ \E u2 \in Usernames : ~Registered(u2)

\* what login(u, p) answers in an unauthenticated session on the store db
LoginAnswer(db, u, p) == login_run(db, InitialSession, u, p).msg

\* the step is the UPDATE of a reset of u's credential
ResetsUser(u) ==
    \E s \in Sessions, p \in Passwords, salt \in Salts :
        reset_update(s, p, salt) /\ pending[s].username = u

\* C3 as claimed: after resetCredential(u, newSecret), login(u, newSecret)
\* succeeds and login(u, oldSecret) fails, for every newSecret.
C3_OldSecretFails ==
    [][\A s \in Sessions, new \in Passwords, salt \in Salts :
          reset_update(s, new, salt) =>
             LET u == pending[s].username
             IN  /\ LoginAnswer(users', u, new) = LoginOk
                 /\ LoginAnswer(users', u, account[u].secret) = LoginErr]_vars

\* C3, amended: after resetCredential(u, newSecret), login(u, newSecret)
\* succeeds and, when newSecret differs from the old secret, login(u,
\* oldSecret) fails; and no step other than a reset of u changes what login
\* answers for a registered u, so both last until the next reset of u.
C3_ResetReplacesSecret ==
    [][/\ \A s \in Sessions, new \in Passwords, salt \in Salts :
             reset_update(s, new, salt) =>
                LET u == pending[s].username
                    old == account[u].secret
                IN  /\ LoginAnswer(users', u, new) = LoginOk
                    /\ old # new => LoginAnswer(users', u, old) = LoginErr
       /\ \A u \in Usernames, p \in Passwords :
             (/\ select_user(users, u) # {}
              /\ LoginAnswer(users', u, p) # LoginAnswer(users, u, p)) => ResetsUser(u)]_vars

C3_Witness ==
    \E s \in Sessions, u \in Usernames :
        /\ shown = [session |-> s, msg |-> ResetOk]
        /\ Registered(u)
        /\ \E row \in select_user(users, u) :
              /\ check_password(account[u].secret, row.password)
              /\ \E p \in Passwords : ~check_password(p, row.password)

\* the step is a record-store operation run for session s
GatedStep(s) ==
    \/ show_patients(s)
    \/ show_doctors(s)
    \/ show_appointments(s)
    \/ add_patient(s)
    \/ add_doctor(s)
    \/ \E pc \in BOOLEAN, dc \in BOOLEAN : add_appointment(s, pc, dc)

\* the step is a successful login of session s
LoginSucceeds(s) ==
    \E u \in Usernames, p \in Passwords :
        login(s, u, p) /\ shown' = [session |-> s, msg |-> LoginOk]

\* C4: no list or add operation of the record store runs for a session that is
\* unauthenticated, and a session stops being unauthenticated only by a
\* successful login of its own.
C4_NoGatedOpUnauthenticated ==
    [][\A s \in Sessions :
          /\ GatedStep(s) => Authenticated(s)
          /\ (~Authenticated(s) /\ Authenticated(s)') => LoginSucceeds(s)]_vars

C4_Witness ==
    \E s \in Sessions :
        /\ ~Authenticated(s)
        /\ shown.session \notin {s, None}
        /\ shown.msg \in {PatientsCsv, DoctorsCsv, AppointmentsCsv,
                          PatientOk, DoctorOk, AppointmentOk, TypeError}

\* the role-gated operations, the role each one asks for, and the role list in
\* front of its form
RoleGatedOps == {"add_patient", "add_doctor", "add_appointment"}
RequiredRole(op) ==
    CASE op = "add_patient" -> "receptionist"
      [] op = "add_doctor" -> "admin"
      [] op = "add_appointment" -> "receptionist"
Permitted(op, role) ==
    CASE op = "add_patient" -> add_patient_gate(role)
      [] op = "add_doctor" -> add_doctor_gate(role)
      [] op = "add_appointment" -> add_appointment_gate(role)

\* C5: in an authenticated session a role-gated operation is permitted exactly
\* when the session's role is the operation's required role or admin; so a
\* doctor is denied add doctor and an admin is permitted all three.
C5_ExactMatchOrAdmin ==
    \A s \in Sessions :
        Authenticated(s) =>
           /\ \A op \in RoleGatedOps :
                 Permitted(op, session[s].role) <=>
                    (session[s].role = RequiredRole(op) \/ session[s].role = "admin")
           /\ session[s].role = "doctor" => ~Permitted("add_doctor", "doctor")
           /\ session[s].role = "admin" =>
                 \A op \in RoleGatedOps : Permitted(op, "admin")

C5_Witness ==
    \E s1 \in Sessions, s2 \in Sessions :
        /\ Authenticated(s1) /\ session[s1].role = "doctor"
        /\ Authenticated(s2) /\ session[s2].role = "admin"
        /\ shown = [session |-> s2, msg |-> DoctorOk]

\* C6: logout leaves the session unauthenticated with username and role
\* cleared, on the auth branch where no record-store operation is offered;
\* logging that state out again changes nothing; and the session is
\* authenticated again only by a successful login of its own.
C6_LogoutClears ==
    [][\A s \in Sessions :
          /\ logout(s) =>
                /\ session'[s] = InitialSession
                /\ logout_assign(session'[s]) = session'[s]
                /\ AuthBranch(session'[s])
          /\ (~Authenticated(s) /\ Authenticated(s)') => LoginSucceeds(s)
          /\ GatedStep(s) => ~AuthBranch(session[s])]_vars

\* a session that logged in, used the dashboard and logged out
C6_Witness ==
    \E s \in Sessions :
        /\ session[s] = InitialSession
        /\ shown.session = s
        /\ shown.msg \in {PatientsCsv, DoctorsCsv, AppointmentsCsv,
                          PatientOk, DoctorOk, AppointmentOk, TypeError}

\* C7: in every session the role is present exactly when the username is, and
\* both are present exactly when the authenticated flag is set.
C7_RoleIffIdentity ==
    \A s \in Sessions :
        /\ session[s].role # None <=> session[s].username # None
        /\ session[s].authenticated <=> session[s].username # None

C7_Witness ==
    \E s1 \in Sessions, s2 \in Sessions :
        /\ session[s1].authenticated
        /\ session[s1].username \in Usernames /\ session[s1].role \in Roles
        /\ session[s2] = InitialSession
        /\ shown.msg = ResetOk

\* C8: a login that fails leaves the session unauthenticated with username
\* and role absent, and leaves every session and the users table as they were.
C8_FailedLoginChangesNothing ==
    [][\A s \in Sessions, u \in Usernames, p \in Passwords :
          (login(s, u, p) /\ shown'.msg = LoginErr) =>
             /\ session'[s] = InitialSession
             /\ session' = session
             /\ users' = users]_vars

C8_Witness ==
    \E s \in Sessions, u \in Usernames :
        /\ shown = [session |-> s, msg |-> LoginErr]
        /\ session[s] = InitialSession
        /\ Registered(u)

\* C9: in every state and for every unauthenticated session, a login with an
\* unregistered username and a login with a registered username and a wrong
\* secret leave the same message and the same session state.
C9_FailureIndistinguishable ==
    \A s \in Sessions, u1 \in Usernames, u2 \in Usernames,
       p1 \in Passwords, p2 \in Passwords :
        (/\ AuthBranch(session[s])
         /\ ~Registered(u1)
         /\ Registered(u2) /\ p2 # account[u2].secret) =>
           login_run(users, session[s], u1, p1) = login_run(users, session[s], u2, p2)

C9_Witness ==
    \E s \in Sessions, u1 \in Usernames, u2 \in Usernames :
        /\ shown = [session |-> s, msg |-> LoginErr]
        /\ AuthBranch(session[s])
        /\ ~Registered(u1)
        /\ Registered(u2)

\* the rows of every username but u
OtherRows(db, u) == {row \in db : row.username # u}

\* C10: a reset for a username with no record shows the unknown-user error
\* and leaves the users table as it was; a reset for a username with a record
\* shows success and replaces the password of that one record by a hash that
\* verifies the new secret, leaving the record's username and role, every
\* other record and the set of records' usernames as they were.
C10_ResetUnknownOrOverwrite ==
    [][\A s \in Sessions :
          /\ \A u \in Usernames :
                (reset_select(s, u) /\ select_user(users, u) = {}) =>
                   /\ shown' = [session |-> s, msg |-> ResetErr]
                   /\ pending'[s] = Idle
                   /\ users' = users
          /\ \A new \in Passwords, salt \in Salts :
                reset_update(s, new, salt) =>
                   LET u == pending[s].username
                   IN  /\ shown' = [session |-> s, msg |-> ResetOk]
                       /\ select_user(users, u) # {}
                       /\ OtherRows(users', u) = OtherRows(users, u)
                       /\ \A old \in select_user(users, u) :
                             select_user(users', u) =
                                {[old EXCEPT !.password = hash_password(new, salt)]}
                       /\ \A row \in select_user(users', u) :
                             check_password(new, row.password)]_vars

C10_Witness ==
    \E s \in Sessions, u1 \in Usernames, u2 \in Usernames :
        /\ shown = [session |-> s, msg |-> ResetErr]
        /\ select_user(users, u1) = {}
        /\ select_user(users, u2) # {}
        /\ \E row \in select_user(users, u2) :
              check_password(account[u2].secret, row.password)

\* C11: in every reachable state, also after registrations of one username
\* by two sessions whose SELECT and INSERT steps interleave, the users table
\* holds at most one row per username.
C11_UsernameUnique ==
    \A u \in Usernames : Cardinality(select_user(users, u)) <= 1

\* two register runs of one username met at the INSERT: the second was
\* refused, and the one row of the only username registered is there
C11_Witness ==
    \E u \in Usernames :
        /\ shown.msg = IntegrityError
        /\ \A row \in users : row.username = u
        /\ Cardinality(select_user(users, u)) = 1

\* the usernames with a row, and each row without its password
UsernamesOf(db) == {row.username : row \in db}
Identity(db) == {[username |-> row.username, role |-> row.role] : row \in db}

\* C12: no step deletes a user record or changes a record's username or role;
\* a record is created only by the INSERT of a register call; the only field
\* a step changes is the password, and only the UPDATE of a reset of u changes
\* it, for the record of u and no other.
C12_RecordsKeepIdentity ==
    [][/\ Identity(users) \subseteq Identity(users')
       /\ \A u \in Usernames :
             /\ (u \in UsernamesOf(users') \ UsernamesOf(users)) =>
                   \E s \in Sessions, p \in Passwords, r \in Roles, salt \in Salts :
                       register_insert(s, p, r, salt) /\ pending[s].username = u
             /\ (u \in UsernamesOf(users)
                 /\ select_user(users', u) # select_user(users, u)) =>
                   /\ ResetsUser(u)
                   /\ OtherRows(users', u) = OtherRows(users, u)
                   /\ Identity(select_user(users', u)) = Identity(select_user(users, u))]_vars

\* both usernames have a record, and the last step reset a credential
C12_Witness ==
    /\ UsernamesOf(users) = Usernames
    /\ shown.msg = ResetOk
    /\ \A u \in Usernames : \E row \in select_user(users, u) :
          row.role = account[u].role

\* what st.error shows: the failures the script reports itself
ErrorMessages == {LoginErr, RegisterErr, ResetErr}

\* C13: a store operation that fails is reported as an error outcome and is
\* no unhandled exception of the run, and the session keeps its
\* authentication state; stated for the failure the users table can produce,
\* the constraint violation of register's INSERT.
C13_StoreFailureReported ==
    [][\A s \in Sessions, p \in Passwords, r \in Roles, salt \in Salts :
          (register_insert(s, p, r, salt)
           /\ violates_primary_key(users, pending[s].username)) =>
             /\ shown'.session = s
             /\ shown'.msg \in ErrorMessages
             /\ session' = session]_vars

\* C14: the state of a session changes only by a successful login of that
\* session, from unauthenticated to authenticated, and by a logout of that
\* session, from authenticated to the cleared state; no register, no reset
\* (also of the logged-in user's own credential) and no step of another
\* session changes it, so identity and role are fixed between the two.
C14_OnlyOwnLoginLogout ==
    [][\A s \in Sessions :
          session'[s] # session[s] =>
             \/ /\ ~Authenticated(s)
                /\ LoginSucceeds(s)
                /\ Authenticated(s)'
             \/ /\ Authenticated(s)
                /\ logout(s)
                /\ session'[s] = InitialSession]_vars

\* a session is logged in as the only registered user while another session
\* has just reset that user's credential
C14_Witness ==
    \E s \in Sessions, s2 \in Sessions :
        /\ s # s2
        /\ Authenticated(s)
        /\ \A row \in users : row.username = session[s].username
        /\ shown = [session |-> s2, msg |-> ResetOk]

\* C15: the username of every authenticated session has a record in the users
\* table, and the role the session holds is the role of that record.
C15_CachedRoleCurrent ==
    \A s \in Sessions :
        Authenticated(s) =>
           /\ select_user(users, session[s].username) # {}
           /\ \A row \in select_user(users, session[s].username) :
                 row.role = session[s].role

\* a session is logged in as one of two registered users of different roles
\* while another session has just reset a credential
C15_Witness ==
    \E s \in Sessions, s2 \in Sessions, u \in Usernames :
        /\ Authenticated(s)
        /\ s # s2
        /\ shown = [session |-> s2, msg |-> ResetOk]
        /\ u # session[s].username
        /\ \E row \in select_user(users, u) : row.role # session[s].role

====
